---- MODULE Spec2Model ----
(***************************************************************************)
(* Model of the cursor paginator of src/src/lib.rs.                        *)
(*                                                                         *)
(* A Rust String is modelled as the sequence of its UTF-8 bytes (0..255).  *)
(* A Result is a record with a field ok.                                   *)
(***************************************************************************)
EXTENDS Integers, Sequences, FiniteSets, TLC

\* Option: None, or Some(x) with value Unwrap
None == <<>>

Some(x) == << x >>

IsSome(o) == o # <<>>

Unwrap(o) == o[1]

(***************************************************************************)
(* Text                                                                    *)
(***************************************************************************)

\* the printable ASCII characters, code 32 first; the double quote and the
\* backtick are written by name
Printable ==
  << " ", "!", "dquote", "#", "$", "%", "&", "'", "(", ")", "*", "+", ",", "-",
     ".", "/", "0", "1", "2", "3", "4", "5", "6", "7", "8", "9", ":", ";",
     "<", "=", ">", "?", "@", "A", "B", "C", "D", "E", "F", "G", "H", "I",
     "J", "K", "L", "M", "N", "O", "P", "Q", "R", "S", "T", "U", "V", "W",
     "X", "Y", "Z", "[", "\\", "]", "^", "_", "backtick", "a", "b", "c", "d", "e",
     "f", "g", "h", "i", "j", "k", "l", "m", "n", "o", "p", "q", "r", "s",
     "t", "u", "v", "w", "x", "y", "z", "{", "|", "}", "~" >>

\* code of a character
Ord ==
  [c \in {Printable[i] : i \in 1..Len(Printable)} \cup {"\t", "\n", "\r"} |->
     IF c = "\t" THEN 9
     ELSE IF c = "\n" THEN 10
     ELSE IF c = "\r" THEN 13
     ELSE 31 + CHOOSE i \in 1..Len(Printable) : Printable[i] = c]

\* the String written as a tuple of characters
Str(chars) == [i \in 1..Len(chars) |-> Ord[chars[i]]]

RECURSIVE Concat(_)
Concat(ss) == IF ss = <<>> THEN <<>> ELSE Head(ss) \o Concat(Tail(ss))

\* s < t in byte order
RECURSIVE StrLess(_, _)
StrLess(s, t) ==
  IF t = <<>> THEN FALSE
  ELSE IF s = <<>> THEN TRUE
  ELSE IF Head(s) # Head(t) THEN Head(s) < Head(t)
  ELSE StrLess(Tail(s), Tail(t))

Fail == [ok |-> FALSE]

\* is b well-formed UTF-8 from position i on
RECURSIVE IsUtf8From(_, _)
IsUtf8From(b, i) ==
  LET n == Len(b)
      cont(j) == j <= n /\ b[j] >= 128 /\ b[j] <= 191
  IN IF i > n THEN TRUE
     ELSE IF b[i] < 128 THEN IsUtf8From(b, i + 1)
     ELSE IF b[i] >= 194 /\ b[i] <= 223
       THEN cont(i + 1) /\ IsUtf8From(b, i + 2)
     ELSE IF b[i] >= 224 /\ b[i] <= 239
       THEN /\ cont(i + 1) /\ cont(i + 2)
            /\ (b[i] = 224 => b[i + 1] >= 160)
            /\ (b[i] = 237 => b[i + 1] <= 159)
            /\ IsUtf8From(b, i + 3)
     ELSE IF b[i] >= 240 /\ b[i] <= 244
       THEN /\ cont(i + 1) /\ cont(i + 2) /\ cont(i + 3)
            /\ (b[i] = 240 => b[i + 1] >= 144)
            /\ (b[i] = 244 => b[i + 1] <= 143)
            /\ IsUtf8From(b, i + 4)
     ELSE FALSE

(***************************************************************************)
(* base64::prelude::BASE64_URL_SAFE: URL-safe alphabet, padded output,     *)
(* canonical padding and zero trailing bits required on input.             *)
(***************************************************************************)

B64Alphabet ==
  Str(<< "A", "B", "C", "D", "E", "F", "G", "H", "I", "J", "K", "L", "M",
         "N", "O", "P", "Q", "R", "S", "T", "U", "V", "W", "X", "Y", "Z",
         "a", "b", "c", "d", "e", "f", "g", "h", "i", "j", "k", "l", "m",
         "n", "o", "p", "q", "r", "s", "t", "u", "v", "w", "x", "y", "z",
         "0", "1", "2", "3", "4", "5", "6", "7", "8", "9", "-", "_" >>)

B64Pad == 61

\* the value of a base64 symbol, -1 for a byte outside the alphabet
B64Value ==
  [c \in 0..255 |->
     IF \E i \in 1..64 : B64Alphabet[i] = c
       THEN (CHOOSE i \in 1..64 : B64Alphabet[i] = c) - 1
       ELSE -1]

B64Sym(v) == B64Alphabet[v + 1]

RECURSIVE B64EncodeFrom(_, _)
B64EncodeFrom(b, i) ==
  LET n == Len(b) - i + 1
  IN IF n <= 0 THEN <<>>
     ELSE IF n = 1
       THEN << B64Sym(b[i] \div 4), B64Sym((b[i] % 4) * 16), B64Pad, B64Pad >>
     ELSE IF n = 2
       THEN << B64Sym(b[i] \div 4),
               B64Sym((b[i] % 4) * 16 + b[i + 1] \div 16),
               B64Sym((b[i + 1] % 16) * 4), B64Pad >>
     ELSE << B64Sym(b[i] \div 4),
             B64Sym((b[i] % 4) * 16 + b[i + 1] \div 16),
             B64Sym((b[i + 1] % 16) * 4 + b[i + 2] \div 64),
             B64Sym(b[i + 2] % 64) >> \o B64EncodeFrom(b, i + 3)

B64Encode(b) == B64EncodeFrom(b, 1)

RECURSIVE B64DecodeFrom(_, _, _)
B64DecodeFrom(s, i, acc) ==
  LET n  == Len(s)
      v1 == B64Value[s[i]]
      v2 == B64Value[s[i + 1]]
      v3 == B64Value[s[i + 2]]
      v4 == B64Value[s[i + 3]]
      b1 == v1 * 4 + v2 \div 16
      b2 == (v2 % 16) * 16 + v3 \div 4
      b3 == (v3 % 4) * 64 + v4
  IN IF i > n THEN [ok |-> TRUE, val |-> acc]
     ELSE IF v1 < 0 \/ v2 < 0 THEN Fail
     ELSE IF i + 3 = n /\ s[i + 2] = B64Pad /\ s[i + 3] = B64Pad
       THEN IF v2 % 16 = 0 THEN [ok |-> TRUE, val |-> Append(acc, b1)]
            ELSE Fail
     ELSE IF i + 3 = n /\ s[i + 3] = B64Pad
       THEN IF v3 >= 0 /\ v3 % 4 = 0
              THEN [ok |-> TRUE, val |-> acc \o << b1, b2 >>]
              ELSE Fail
     ELSE IF v3 < 0 \/ v4 < 0 THEN Fail
     ELSE B64DecodeFrom(s, i + 4, acc \o << b1, b2, b3 >>)

B64Decode(s) == IF Len(s) % 4 # 0 THEN Fail ELSE B64DecodeFrom(s, 1, <<>>)

(***************************************************************************)
(* serde_json over Vec<String>                                             *)
(***************************************************************************)

HexDigits == Str(<< "0", "1", "2", "3", "4", "5", "6", "7", "8", "9",
                    "a", "b", "c", "d", "e", "f" >>)

\* the value of a hexadecimal digit of either case, -1 for any other byte
HexValue(c) ==
  IF c >= 48 /\ c <= 57 THEN c - 48
  ELSE IF c >= 97 /\ c <= 102 THEN c - 87
  ELSE IF c >= 65 /\ c <= 70 THEN c - 55
  ELSE -1

\* serde_json's output for one byte of a string
JsonEscape(c) ==
  IF c = 34 THEN << 92, 34 >>
  ELSE IF c = 92 THEN << 92, 92 >>
  ELSE IF c = 8 THEN << 92, 98 >>
  ELSE IF c = 9 THEN << 92, 116 >>
  ELSE IF c = 10 THEN << 92, 110 >>
  ELSE IF c = 12 THEN << 92, 102 >>
  ELSE IF c = 13 THEN << 92, 114 >>
  ELSE IF c < 32
    THEN << 92, 117, 48, 48, HexDigits[c \div 16 + 1], HexDigits[(c % 16) + 1] >>
  ELSE << c >>

JsonString(s) == << 34 >> \o Concat([i \in 1..Len(s) |-> JsonEscape(s[i])]) \o << 34 >>

RECURSIVE JsonJoin(_)
JsonJoin(items) ==
  IF items = <<>> THEN <<>>
  ELSE IF Len(items) = 1 THEN Head(items)
  ELSE Head(items) \o << 44 >> \o JsonJoin(Tail(items))

\* serde_json::to_vec(&Vec<String>): the compact form, which cannot fail
to_vec(keys) ==
  << 91 >> \o JsonJoin([i \in 1..Len(keys) |-> JsonString(keys[i])]) \o << 93 >>

\* the UTF-8 encoding of a code point
Utf8Encode(cp) ==
  IF cp < 128 THEN << cp >>
  ELSE IF cp < 2048 THEN << 192 + cp \div 64, 128 + (cp % 64) >>
  ELSE IF cp < 65536
    THEN << 224 + cp \div 4096, 128 + ((cp \div 64) % 64), 128 + (cp % 64) >>
  ELSE << 240 + cp \div 262144, 128 + ((cp \div 4096) % 64),
          128 + ((cp \div 64) % 64), 128 + (cp % 64) >>

\* the 4 hexadecimal digits at b[i..i+3] as a number, -1 when they are not
Hex4(b, i) ==
  IF i + 3 > Len(b) THEN -1
  ELSE LET h(j) == HexValue(b[i + j])
       IN IF h(0) < 0 \/ h(1) < 0 \/ h(2) < 0 \/ h(3) < 0 THEN -1
          ELSE h(0) * 4096 + h(1) * 256 + h(2) * 16 + h(3)

IsWhitespace(c) == c \in {32, 9, 10, 13}

RECURSIVE SkipWhitespace(_, _)
SkipWhitespace(b, i) ==
  IF i <= Len(b) /\ IsWhitespace(b[i]) THEN SkipWhitespace(b, i + 1) ELSE i

\* a JSON string whose opening quote is at b[i - 1]: its value and the
\* position after its closing quote
RECURSIVE ParseJsonString(_, _, _)
ParseJsonString(b, i, acc) ==
  LET n == Len(b)
      simple(c) == ParseJsonString(b, i + 2, Append(acc, c))
      hi == Hex4(b, i + 2)
      lo == IF i + 7 <= n /\ b[i + 6] = 92 /\ b[i + 7] = 117
              THEN Hex4(b, i + 8) ELSE -1
  IN IF i > n THEN Fail
     ELSE IF b[i] = 34
       THEN IF IsUtf8From(acc, 1) THEN [ok |-> TRUE, val |-> acc, next |-> i + 1]
            ELSE Fail
     ELSE IF b[i] < 32 THEN Fail
     ELSE IF b[i] # 92 THEN ParseJsonString(b, i + 1, Append(acc, b[i]))
     ELSE IF i + 1 > n THEN Fail
     ELSE IF b[i + 1] \in {34, 92, 47} THEN simple(b[i + 1])
     ELSE IF b[i + 1] = 98 THEN simple(8)
     ELSE IF b[i + 1] = 102 THEN simple(12)
     ELSE IF b[i + 1] = 110 THEN simple(10)
     ELSE IF b[i + 1] = 114 THEN simple(13)
     ELSE IF b[i + 1] = 116 THEN simple(9)
     ELSE IF b[i + 1] # 117 \/ hi < 0 THEN Fail
     ELSE IF hi >= 56320 /\ hi <= 57343 THEN Fail
     ELSE IF hi >= 55296 /\ hi <= 56319
       THEN IF lo >= 56320 /\ lo <= 57343
              THEN ParseJsonString(b, i + 12,
                     acc \o Utf8Encode(65536 + (hi - 55296) * 1024 + (lo - 56320)))
              ELSE Fail
     ELSE ParseJsonString(b, i + 6, acc \o Utf8Encode(hi))

\* the elements of an array after its first: b[i] is past an element
RECURSIVE ParseJsonRest(_, _, _)
ParseJsonRest(b, i, acc) ==
  LET j == SkipWhitespace(b, i)
      k == SkipWhitespace(b, j + 1)
      e == ParseJsonString(b, k + 1, <<>>)
  IN IF j > Len(b) THEN Fail
     ELSE IF b[j] = 93 THEN [ok |-> TRUE, val |-> acc, next |-> j + 1]
     ELSE IF b[j] # 44 THEN Fail
     ELSE IF k > Len(b) \/ b[k] # 34 THEN Fail
     ELSE IF ~e.ok THEN Fail
     ELSE ParseJsonRest(b, e.next, Append(acc, e.val))

\* serde_json::from_slice::<Vec<String>>: whitespace is allowed around the
\* tokens, every element must be a string, nothing may follow the array
from_slice(b) ==
  LET n == Len(b)
      i == SkipWhitespace(b, 1)
      j == SkipWhitespace(b, i + 1)
      e == ParseJsonString(b, j + 1, <<>>)
      arr == IF j > n THEN Fail
             ELSE IF b[j] = 93 THEN [ok |-> TRUE, val |-> <<>>, next |-> j + 1]
             ELSE IF b[j] # 34 THEN Fail
             ELSE IF ~e.ok THEN Fail
             ELSE ParseJsonRest(b, e.next, << e.val >>)
  IN IF i > n \/ b[i] # 91 THEN Fail
     ELSE IF ~arr.ok THEN Fail
     ELSE IF SkipWhitespace(b, arr.next) <= n THEN Fail
     ELSE [ok |-> TRUE, val |-> arr.val]

(***************************************************************************)
(* KeyParse                                                                *)
(***************************************************************************)

\* the number b[i..j] written in decimal digits, -1 when a byte is no digit
RECURSIVE Digits(_, _, _, _)
Digits(b, i, j, acc) ==
  IF i > j THEN acc
  ELSE IF i > Len(b) \/ b[i] < 48 \/ b[i] > 57 THEN -1
  ELSE Digits(b, i + 1, j, acc * 10 + (b[i] - 48))

IsLeapYear(y) == (y % 4 = 0 /\ y % 100 # 0) \/ y % 400 = 0

DaysInMonth(y, m) ==
  IF m = 2 THEN (IF IsLeapYear(y) THEN 29 ELSE 28)
  ELSE IF m \in {4, 6, 9, 11} THEN 30 ELSE 31

\* days from 1970-01-01 to the civil date y-m-d
DaysFromCivil(y, m, d) ==
  LET yy  == IF m <= 2 THEN y - 1 ELSE y
      era == yy \div 400
      yoe == yy - era * 400
      mp  == IF m > 2 THEN m - 3 ELSE m + 9
      doy == (153 * mp + 2) \div 5 + d - 1
      doe == yoe * 365 + yoe \div 4 - yoe \div 100 + doy
  IN era * 146097 + doe - 719468

\* the end of the run of digits that starts at b[i]
RECURSIVE DigitsEnd(_, _)
DigitsEnd(b, i) ==
  IF i <= Len(b) /\ b[i] >= 48 /\ b[i] <= 57 THEN DigitsEnd(b, i + 1) ELSE i

\* a fraction of a second of k digits, in nanoseconds (digits past the
\* ninth are dropped)
RECURSIVE Nanos(_, _, _, _)
Nanos(b, i, k, acc) ==
  IF k = 9 THEN acc
  ELSE IF i <= Len(b) /\ b[i] >= 48 /\ b[i] <= 57
    THEN Nanos(b, i + 1, k + 1, acc * 10 + (b[i] - 48))
  ELSE Nanos(b, i, k + 1, acc * 10)

\* key.parse::<DateTime<Utc>>() on an RFC 3339 date and time: the instant
\* in UTC as << days since 1970-01-01, second of the day, nanosecond >>
ParseDateTime(b) ==
  LET n    == Len(b)
      y    == Digits(b, 1, 4, 0)
      mo   == Digits(b, 6, 7, 0)
      d    == Digits(b, 9, 10, 0)
      h    == Digits(b, 12, 13, 0)
      mi   == Digits(b, 15, 16, 0)
      sec  == Digits(b, 18, 19, 0)
      frac == n >= 20 /\ b[20] = 46
      fe   == IF frac THEN DigitsEnd(b, 21) ELSE 20
      ns   == IF frac THEN Nanos(b, 21, 0, 0) ELSE 0
      utc  == fe = n /\ b[fe] \in {90, 122}
      oh   == Digits(b, fe + 1, fe + 2, 0)
      om   == Digits(b, fe + 4, fe + 5, 0)
      off  == /\ fe + 5 = n /\ b[fe] \in {43, 45} /\ b[fe + 3] = 58
              /\ oh >= 0 /\ oh <= 23 /\ om >= 0 /\ om <= 59
      osec == IF utc THEN 0
              ELSE IF b[fe] = 43 THEN oh * 3600 + om * 60
              ELSE 0 - (oh * 3600 + om * 60)
      t    == h * 3600 + mi * 60 + sec - osec
      days == DaysFromCivil(y, mo, d)
  IN IF n < 20 THEN Fail
     ELSE IF y < 0 \/ mo < 1 \/ mo > 12 \/ d < 1 THEN Fail
     ELSE IF d > DaysInMonth(y, mo) THEN Fail
     ELSE IF b[5] # 45 \/ b[8] # 45 \/ b[11] \notin {84, 116, 32} THEN Fail
     ELSE IF b[14] # 58 \/ b[17] # 58 THEN Fail
     ELSE IF h < 0 \/ h > 23 \/ mi < 0 \/ mi > 59 \/ sec < 0 \/ sec > 59 THEN Fail
     ELSE IF frac /\ fe = 21 THEN Fail
     ELSE IF fe > n THEN Fail
     ELSE IF ~utc /\ ~off THEN Fail
     ELSE IF t < 0 THEN [ok |-> TRUE, val |-> << days - 1, t + 86400, ns >>]
     ELSE IF t >= 86400 THEN [ok |-> TRUE, val |-> << days + 1, t - 86400, ns >>]
     ELSE [ok |-> TRUE, val |-> << days, t, ns >>]

\* the key types of the model: K1 and K2 of paginate are each one of these
KeyTypes == {"String", "DateTime"}

\* the Result of DateTime<Utc>::parse_key for the result of the parse
date_time_key(parsed) ==
  IF parsed.ok THEN parsed
  ELSE [ok |-> FALSE, error |-> "InvalidArgument",
        message |-> "failed to parse date time from string"]

\* parse_key falling back to K::default() for a key that does not parse
parse_key_or_default(K, key) ==
  IF K = "String" THEN [ok |-> TRUE, val |-> key]
  ELSE IF ParseDateTime(key).ok THEN ParseDateTime(key)
  ELSE [ok |-> TRUE, val |-> << 0, 0, 0 >>]

\* K::parse_key
parse_key(K, key) ==
  IF K = "String" THEN [ok |-> TRUE, val |-> key]
  ELSE date_time_key(ParseDateTime(key))

\* a < b for two values of the column type K
KeyLess(K, a, b) ==
  IF K = "String" THEN StrLess(a, b)
  ELSE \/ a[1] < b[1]
       \/ a[1] = b[1] /\ a[2] < b[2]
       \/ a[1] = b[1] /\ a[2] = b[2] /\ a[3] < b[3]

(***************************************************************************)
(* Storage: the query that paginate builds and what executing it returns.  *)
(* A row is [id, col, keys]: col is the pair of values of the two key      *)
(* columns, keys the pair of Strings that retrieve_keys_ returns for it.   *)
(***************************************************************************)

\* the base query: filtered, neither ordered nor limited
BaseQuery == [where |-> None, order |-> None, limit |-> None]

\* sqlx_page::Pagination::new(smaller, limit, keys)
Pagination(smaller_, limit_, keys) ==
  [smaller |-> smaller_, limit |-> limit_, keys |-> keys]

\* Pagination::push_where2: the row comparison against the cursor's key
push_where2(pagination, query, key) ==
  [query EXCEPT !.where =
     Some([op |-> IF pagination.smaller THEN "<" ELSE ">", key |-> key])]

\* Pagination::push_order_by
push_order_by(pagination, query) ==
  [query EXCEPT !.order = Some(IF pagination.smaller THEN "DESC" ELSE "ASC")]

\* Pagination::push_limit
push_limit(pagination, query) == [query EXCEPT !.limit = Some(pagination.limit)]

\* a < b for two composite keys of column types K
CompositeLess(K, a, b) ==
  \/ KeyLess(K[1], a[1], b[1])
  \/ a[1] = b[1] /\ KeyLess(K[2], a[2], b[2])

\* does the row satisfy the query's WHERE clause
Matches(K, query, row) ==
  IF query.where = None THEN TRUE
  ELSE IF Unwrap(query.where).op = "<"
    THEN CompositeLess(K, row.col, Unwrap(query.where).key)
  ELSE CompositeLess(K, Unwrap(query.where).key, row.col)

\* does row a come before row b in the query's ORDER BY; rows of equal
\* composite key come in an order that the storage chooses (tie)
RowBefore(K, query, tie, a, b) ==
  IF CompositeLess(K, a.col, b.col) THEN query.order = Some("ASC")
  ELSE IF CompositeLess(K, b.col, a.col) THEN query.order = Some("DESC")
  ELSE IF tie = "id_asc" THEN a.id < b.id ELSE a.id > b.id

\* the first n rows of S in the query's order
RECURSIVE FirstRows(_, _, _, _, _)
FirstRows(K, query, tie, S, n) ==
  IF S = {} \/ n = 0 THEN <<>>
  ELSE LET first == CHOOSE r \in S :
                      \A o \in S \ {r} : RowBefore(K, query, tie, r, o)
       IN << first >> \o FirstRows(K, query, tie, S \ {first}, n - 1)

\* query.build_query_as::<T>().fetch_all(db): db is [K, rows]; up tells
\* whether the execution succeeds
fetch_all(db, query, up, tie) ==
  IF ~up THEN Fail
  ELSE [ok |-> TRUE,
        val |-> FirstRows(db.K, query, tie,
                          {r \in db.rows : Matches(db.K, query, r)},
                          Unwrap(query.limit))]

(***************************************************************************)
(* Paginator                                                               *)
(***************************************************************************)

InvalidArgument(message) ==
  [ok |-> FALSE, error |-> "InvalidArgument", message |-> message]

Internal == [ok |-> FALSE, error |-> "Internal", message |-> "internal"]

\* the two column names given to Paginator::keys
keys_ == << "key1", "key2" >>

\* the function given to Paginator::retrieve_keys
retrieve_keys_(row) == row.keys

\* parse_cursor without the check of the number of values
parse_cursor_any_length(cursor) ==
  LET bytes  == B64Decode(cursor)
      values == from_slice(bytes.val)
  IN IF ~bytes.ok THEN InvalidArgument("invalid cursor")
     ELSE IF ~values.ok THEN InvalidArgument("invalid cursor")
     ELSE [ok |-> TRUE, val |-> values.val]

\* fn parse_cursor
parse_cursor(cursor) ==
  LET bytes  == B64Decode(cursor)
      values == from_slice(bytes.val)
  IN IF ~bytes.ok THEN InvalidArgument("invalid cursor")
     ELSE IF ~values.ok THEN InvalidArgument("invalid cursor")
     ELSE IF Len(values.val) # 2 THEN InvalidArgument("invalid cursor")
     ELSE [ok |-> TRUE, val |-> values.val]

\* smaller starting as false
smaller_from_false(request) ==
  IF IsSome(request.sort_order) THEN Unwrap(request.sort_order) = "Desc"
  ELSE FALSE

\* let mut smaller
smaller(request) ==
  IF IsSome(request.sort_order) THEN Unwrap(request.sort_order) = "Desc"
  ELSE TRUE

\* limit accepting 0
limit_from_zero(request) ==
  IF /\ IsSome(request.limit)
     /\ Unwrap(request.limit) >= 0 /\ Unwrap(request.limit) <= 100
    THEN Unwrap(request.limit)
    ELSE 10

\* limit capping the values above 100
limit_capped(request) ==
  IF IsSome(request.limit) /\ Unwrap(request.limit) > 100 THEN 100
  ELSE IF IsSome(request.limit) /\ Unwrap(request.limit) > 0
    THEN Unwrap(request.limit)
  ELSE 10

\* let mut limit
limit(request) ==
  IF /\ IsSome(request.limit)
     /\ Unwrap(request.limit) > 0 /\ Unwrap(request.limit) <= 100
    THEN Unwrap(request.limit)
    ELSE 10

\* the query of paginate for the cursor key (None when the request has no
\* cursor)
build_query(request, key) ==
  LET pagination == Pagination(smaller(request), limit(request) + 1, keys_)
      filtered   == IF IsSome(key)
                      THEN push_where2(pagination, BaseQuery, Unwrap(key))
                      ELSE BaseQuery
  IN push_limit(pagination, push_order_by(pagination, filtered))

\* a next page for limit records already
has_next_page_at_limit(data, limit_) == Len(data) >= limit_

\* "if we got limit+1 records, we have a next page"
has_next_page(data, limit_) == Len(data) = limit_ + 1

\* the extra record kept
remove_nothing(data) == data

\* res.data.remove(res.data.len() - 1)
remove_last(data) == SubSeq(data, 1, Len(data) - 1)

\* the cursor with the two keys in the other order
encode_cursor_swapped(keys) == B64Encode(to_vec(<< keys[2], keys[1] >>))

\* the cursor for the keys of a row
encode_cursor(keys) == B64Encode(to_vec(keys))

\* res.next_cursor for the page's rows after the removal
next_cursor(data) ==
  IF data = <<>> THEN None
  ELSE Some(encode_cursor(retrieve_keys_(data[Len(data)])))

\* the next cursor taken from the extra record
response_for_extra(data, limit_) ==
  IF has_next_page(data, limit_)
    THEN [ok |-> TRUE, data |-> remove_last(data),
          next_cursor |-> next_cursor(data)]
    ELSE [ok |-> TRUE, data |-> data, next_cursor |-> None]

\* the next cursor taken from the first record of the page
response_for_first(data, limit_) ==
  IF has_next_page(data, limit_)
    THEN [ok |-> TRUE, data |-> remove_last(data),
          next_cursor |-> next_cursor(<< data[1] >>)]
    ELSE [ok |-> TRUE, data |-> data, next_cursor |-> None]

\* the response for the rows that the storage returned
response_for(data, limit_) ==
  IF has_next_page(data, limit_)
    THEN [ok |-> TRUE, data |-> remove_last(data),
          next_cursor |-> next_cursor(remove_last(data))]
    ELSE [ok |-> TRUE, data |-> data, next_cursor |-> None]

\* the result of paginate and its executions of a query against the
\* storage, each with the rows it returned: the part of paginate from the
\* result of fetch_all on
paginate_fetched(request, up, tie, query, data) ==
  [res |-> IF data.ok THEN response_for(data.val, limit(request)) ELSE Internal,
   queries |-> << [query |-> query, up |-> up, tie |-> tie,
                   rows |-> IF data.ok THEN Some(data.val) ELSE None] >>]

\* the part of paginate from the built query on
paginate_query(request, db, up, tie, query) ==
  paginate_fetched(request, up, tie, query, fetch_all(db, query, up, tie))

\* the part of paginate from the parsed keys on
paginate_keys(request, db, up, tie, key1, key2) ==
  IF ~key1.ok THEN [res |-> key1, queries |-> <<>>]
  ELSE IF ~key2.ok THEN [res |-> key2, queries |-> <<>>]
  ELSE paginate_query(request, db, up, tie,
                      build_query(request, Some(<< key1.val, key2.val >>)))

\* the part of paginate from cursor_values on
paginate_cursor(request, db, up, tie, cursor_values) ==
  IF ~cursor_values.ok THEN [res |-> cursor_values, queries |-> <<>>]
  ELSE IF Len(cursor_values.val) = 2
    THEN paginate_keys(request, db, up, tie,
                       parse_key(db.K[1], cursor_values.val[1]),
                       parse_key(db.K[2], cursor_values.val[2]))
  ELSE paginate_query(request, db, up, tie, build_query(request, None))

\* Paginator::paginate::<K1, K2>
paginate(request, db, up, tie) ==
  paginate_cursor(request, db, up, tie,
                  IF IsSome(request.cursor)
                    THEN parse_cursor(Unwrap(request.cursor))
                    ELSE [ok |-> TRUE, val |-> <<>>])

(***************************************************************************)
(* The inputs: tables, and the requests of a client                        *)
(***************************************************************************)

\* the largest table
MaxRows == 11

\* bytes that the cursor's JSON must escape or carry through
Special == << << 34 >>, << 92 >>, << 10 >>, << 195, 169 >>, <<>> >>

\* the j-th String key, j < 10
StringKey(j) == << 107 >> \o Special[(j % 5) + 1] \o << 48 + j >>

\* the j-th timestamp key, j < 29
TimestampKey(j) ==
  Str(<< "2", "0", "2", "4", "-", "0", "1", "-" >>)
    \o << 48 + j \div 10, 48 + (j % 10) >>
    \o Str(<< "T", "1", "2", ":", "0", "0", ":", "0", "0", "Z" >>)

KeyString(type, j) == IF type = "String" THEN StringKey(j) ELSE TimestampKey(j)

\* row i of a table: rows 2j - 1 and 2j share their first key; with dup
\* rows 3 and 4 share their second key as well
Row(K, dup, i) ==
  LET keys == << KeyString(K[1], (i + 1) \div 2),
                 KeyString(K[2], IF dup /\ i = 3 THEN 1 ELSE (i % 2) + 1) >>
  IN [id |-> i, keys |-> keys,
      col |-> << parse_key(K[1], keys[1]).val, parse_key(K[2], keys[2]).val >>]

\* the pairs K1, K2 that paginate is called with
KeyTypePairs == {<< "DateTime", "String" >>, << "String", "DateTime" >>}

Tables ==
  {[K |-> K, rows |-> {Row(K, dup, i) : i \in 1..n}] :
     K \in KeyTypePairs, dup \in BOOLEAN, n \in 0..MaxRows}

\* a JSON text for the keys that serde_json does not write: whitespace
\* around the tokens, the first byte of each key as a \u escape
LooseJsonString(key) ==
  << 34, 92, 117, 48, 48, HexDigits[key[1] \div 16 + 1],
     HexDigits[(key[1] % 16) + 1] >> \o Tail(JsonString(Tail(key)))

LooseJson(keys) ==
  << 32, 91, 10 >> \o LooseJsonString(keys[1]) \o << 32, 44, 9 >>
    \o LooseJsonString(keys[2]) \o << 13, 93, 32 >>

\* the same instant as TimestampKey(j), written with an offset
OffsetTimestampKey(j) ==
  Str(<< "2", "0", "2", "4", "-", "0", "1", "-" >>)
    \o << 48 + j \div 10, 48 + (j % 10) >>
    \o Str(<< "t", "1", "3", ":", "0", "0", ":", "0", "0", ".", "0",
              "+", "0", "1", ":", "0", "0" >>)

NotADate == Str(<< "n", "o", "t", "-", "a", "-", "d", "a", "t", "e" >>)

\* the keys of row i, a timestamp written with an offset
OffsetKeys(K, i) ==
  LET keys == Row(K, FALSE, i).keys
  IN [c \in 1..2 |-> IF K[c] = "DateTime"
                       THEN OffsetTimestampKey(IF c = 1 THEN (i + 1) \div 2
                                               ELSE (i % 2) + 1)
                       ELSE keys[c]]

\* cursors that decode to keys of the column types: what the encoder
\* writes for a row, and other texts
PositionCursors(db) ==
  {encode_cursor(r.keys) : r \in {r \in db.rows : r.id = 2}}
    \cup {B64Encode(LooseJson(r.keys)) : r \in {r \in db.rows : r.id = 5}}
    \cup {encode_cursor(OffsetKeys(db.K, 3))}

\* cursors that decode to keys that are not of the column types
BadKeyCursors == {encode_cursor(<< NotADate, NotADate >>)}

\* cursors that do not decode
MalformedCursors ==
  { <<>>,
    Str(<< "n", "o", "t", " ", "b", "6", "4", "!" >>),
    Str(<< "W", "y", "J", "h", "I", "l", "0" >>),
    Str(<< "W", "y", "J", "h", "I", "l", "1", "=" >>),
    Str(<< "W", "y", "J", "h", "I", "i", "w", "i", "Y", "i", "J", "d",
           "=", "=", "=", "=" >>),
    B64Encode(Str(<< "[", "dquote", "a", "dquote", "]" >>)),
    B64Encode(Str(<< "[", "dquote", "a", "dquote", ",", "dquote", "b",
                     "dquote", ",", "dquote", "c", "dquote", "]" >>)),
    B64Encode(Str(<< "[", "]" >>)),
    B64Encode(Str(<< "[", "1", ",", "2", "]" >>)),
    B64Encode(Str(<< "{", "dquote", "a", "dquote", ":", "dquote", "b",
                     "dquote", "}" >>)),
    B64Encode(Str(<< "[", "dquote", "a", "dquote", ",", "dquote", "b",
                     "dquote", "]", "x" >>)),
    B64Encode(Str(<< "[", "dquote", "a", "dquote", ",", "dquote", "b" >>)),
    B64Encode(<< 91, 34, 200, 34, 44, 34, 98, 34, 93 >>) }

Limits == {None, Some(0), Some(1), Some(3), Some(100), Some(101), Some(500)}

SortOrders == {None, Some("Asc"), Some("Desc")}

Request(c, l, o) ==
  [cursor |-> c, limit |-> l, sort_by |-> None, sort_order |-> o]

\* the first requests of a client
Requests(db) ==
  {Request(None, l, o) : l \in Limits, o \in SortOrders}
    \cup {Request(Some(x), l, o) :
            x \in PositionCursors(db),
            l \in {None, Some(1), Some(3)}, o \in SortOrders}
    \cup {Request(Some(x), l, None) :
            x \in BadKeyCursors \cup MalformedCursors,
            l \in {None, Some(500)}}

\* the orders in which the storage may return rows of equal composite key
Ties == {"id_asc", "id_desc"}

(***************************************************************************)
(* The state machine: a client builds a Paginator for a request, calls     *)
(* paginate, and follows the cursors that it is given.                     *)
(***************************************************************************)

VARIABLES
  db,        \* the storage: the key types and the rows of the base query
  request_,  \* Paginator.request_
  pc,        \* "new": constructed; "ready": request set; "done": paginate returned
  response,  \* the result of the last paginate, None before the first
  queries,   \* the executions of the last paginate against the storage
  start,     \* the cursor of the client's first request
  pages,     \* the rows of the pages returned so far, in order
  calls,     \* the number of calls of paginate so far
  cursors    \* the next_cursor values returned so far

vars == << db, request_, pc, response, queries, start, pages, calls, cursors >>

\* PaginationRequest::default()
DefaultRequest ==
  [cursor |-> None, limit |-> None, sort_by |-> None, sort_order |-> None]

\* Paginator::new().keys(..).retrieve_keys(..)
Init ==
  /\ db \in Tables
  /\ request_ = DefaultRequest
  /\ pc = "new"
  /\ response = None
  /\ queries = <<>>
  /\ start = None
  /\ pages = <<>>
  /\ calls = 0
  /\ cursors = <<>>

\* Paginator::request with the client's first request
request(r) ==
  /\ pc = "new"
  /\ request_' = r
  /\ start' = r.cursor
  /\ pc' = "ready"
  /\ UNCHANGED << db, response, queries, pages, calls, cursors >>

\* Paginator::paginate, the storage executing the query or failing
Paginate(up, tie) ==
  /\ pc = "ready"
  /\ \E out \in {paginate(request_, db, up, tie)} :
        /\ response' = Some(out.res)
        /\ queries' = out.queries
        /\ calls' = calls + 1
        /\ IF out.res.ok
             THEN /\ pages' = pages \o out.res.data
                  /\ cursors' = cursors \o out.res.next_cursor
             ELSE UNCHANGED << pages, cursors >>
  /\ pc' = "done"
  /\ UNCHANGED << db, request_, start >>

\* the client asks for the next page: the same request with the cursor
\* that it was given
Follow ==
  /\ pc = "done"
  /\ Unwrap(response).ok
  /\ IsSome(Unwrap(response).next_cursor)
  /\ request_' = [request_ EXCEPT !.cursor = Unwrap(response).next_cursor]
  /\ pc' = "ready"
  /\ UNCHANGED << db, response, queries, start, pages, calls, cursors >>

Next ==
  \/ \E r \in Requests(db) : request(r)
  \/ \E up \in BOOLEAN, tie \in Ties : Paginate(up, tie)
  \/ Follow

Spec == Init /\ [][Next]_vars

(***************************************************************************)
(* Properties                                                              *)
(***************************************************************************)

Done == pc = "done"

\* the result of the last paginate
Res == Unwrap(response)

Succeeded == Done /\ Res.ok

\* the number of rows that the storage returned to the last paginate
Fetched == Len(Unwrap(queries[1].rows))

\* the storage's behaviour in the last paginate
RunUp == IF queries = <<>> THEN TRUE ELSE queries[1].up

RunTie == IF queries = <<>> THEN "id_asc" ELSE queries[1].tie

\* what paginate returns for another request under the same storage behaviour
ResultOf(r) == paginate(r, db, RunUp, RunTie).res

\* the clamped limit of section 4.3 step 3
EffectiveLimit(l) ==
  IF l = None THEN 10
  ELSE IF Unwrap(l) = 0 \/ Unwrap(l) > 100 THEN 10
  ELSE Unwrap(l)

UniqueKeys == \A a, b \in db.rows : a.col = b.col => a = b

\* the request sorts in descending order
Descending == request_.sort_order # Some("Asc")

\* key a comes strictly before key b in the request's sort order
KeyBefore(a, b) ==
  IF Descending THEN CompositeLess(db.K, b, a) ELSE CompositeLess(db.K, a, b)

\* the chain of calls has ended with a last page
LastPage == Succeeded /\ Res.next_cursor = None

\* C1: on a table of unique composite keys, the pages of a chain of calls
\* that starts without a cursor are strictly in sort order (so no row comes
\* twice), every row not yet returned comes after every row returned (so no
\* row is skipped), and at the last page every row has been returned.
C1_PagesPartitionResult ==
  (start = None /\ UniqueKeys) =>
    /\ \A i, j \in 1..Len(pages) :
         i < j => KeyBefore(pages[i].col, pages[j].col)
    /\ \A r \in db.rows :
         (\A i \in 1..Len(pages) : pages[i] # r) =>
           \A i \in 1..Len(pages) : KeyBefore(pages[i].col, r.col)
    /\ LastPage => {pages[i] : i \in 1..Len(pages)} = db.rows

C1_Witness ==
  /\ start = None /\ UniqueKeys /\ LastPage
  /\ calls >= 3
  /\ Len(pages) = Cardinality(db.rows)
  /\ Len(pages) >= 7

\* C2: a successful paginate returns a next_cursor exactly when the storage
\* returned effective_limit + 1 rows.
C2_NextCursorIffPeekRow ==
  Succeeded =>
    (IsSome(Res.next_cursor) <=>
       Fetched = EffectiveLimit(request_.limit) + 1)

C2_Witness ==
  /\ Succeeded
  /\ IsSome(request_.cursor)
  /\ Fetched = EffectiveLimit(request_.limit)
  /\ Res.next_cursor = None

\* C3: a successful paginate returns at most effective_limit rows.
C3_PageSizeBound ==
  Succeeded => Len(Res.data) <= EffectiveLimit(request_.limit)

C3_Witness ==
  /\ Succeeded
  /\ request_.limit = Some(500)
  /\ Fetched = 11
  /\ Len(Res.data) = 10

\* C4: the limit of the executed query is the effective limit plus one: 10
\* for an absent limit, 0 and limits above 100, else the caller's value; an
\* error comes from the cursor or from the storage only; and limit = 0
\* gives the result of the same request without a limit.
C4_LimitClamp ==
  Done =>
    /\ queries # <<>> =>
         Unwrap(queries[1].query.limit) = EffectiveLimit(request_.limit) + 1
    /\ ~Res.ok => (IsSome(request_.cursor) \/ ~RunUp)
    /\ request_.limit = Some(0) =>
         Res = ResultOf([request_ EXCEPT !.limit = None])

C4_Witness ==
  /\ Succeeded
  /\ request_.limit = Some(0)
  /\ Len(Res.data) = 10
  /\ IsSome(Res.next_cursor)

\* C5 as stated: limit = 500 gives the result of the same request with
\* limit = 100.
C5_Original ==
  (Done /\ request_.limit = Some(500)) =>
    Res = ResultOf([request_ EXCEPT !.limit = Some(100)])

\* C5 as amended: limit = 500 gives the result of the same request with
\* limit = 10, the default.
C5_Limit500IsDefault ==
  (Done /\ request_.limit = Some(500)) =>
    Res = ResultOf([request_ EXCEPT !.limit = Some(10)])

C5_Witness ==
  /\ Succeeded
  /\ request_.limit = Some(500)
  /\ Cardinality(db.rows) > 10
  /\ Len(Res.data) = 10
  /\ IsSome(Res.next_cursor)

\* the order and the comparison of the executed query are those of the
\* direction desc, and so are the rows returned
QueryDirection(desc) ==
  LET q == queries[1].query
  IN /\ q.order = Some(IF desc THEN "DESC" ELSE "ASC")
     /\ IsSome(q.where) => Unwrap(q.where).op = (IF desc THEN "<" ELSE ">")
     /\ Res.ok =>
          \A i \in 1..Len(Res.data) :
            /\ i > 1 =>
                 ~(IF desc
                     THEN CompositeLess(db.K, Res.data[i - 1].col, Res.data[i].col)
                     ELSE CompositeLess(db.K, Res.data[i].col, Res.data[i - 1].col))
            /\ IsSome(q.where) =>
                 (IF desc
                    THEN CompositeLess(db.K, Res.data[i].col, Unwrap(q.where).key)
                    ELSE CompositeLess(db.K, Unwrap(q.where).key, Res.data[i].col))

WellFormedCursor(c) ==
  /\ B64Decode(c).ok
  /\ from_slice(B64Decode(c).val).ok
  /\ Len(from_slice(B64Decode(c).val).val) = 2

\* the cursor is what the encoder writes for some pair of keys
EncoderWritten(c) ==
  /\ WellFormedCursor(c)
  /\ encode_cursor(from_slice(B64Decode(c).val).val) = c

RejectedAsInvalidCursor ==
  /\ Res = InvalidArgument("invalid cursor")
  /\ queries = <<>>

\* C7 as stated: a cursor that the encoder did not write is rejected with
\* InvalidArgument("invalid cursor") before any query is executed.
C7_Original ==
  (Done /\ IsSome(request_.cursor) /\ ~EncoderWritten(Unwrap(request_.cursor)))
    => RejectedAsInvalidCursor

\* C7 as amended: a cursor that is not the base64 text of a JSON array of
\* exactly two strings is rejected with InvalidArgument("invalid cursor")
\* before any query is executed.
C7_MalformedCursorRejected ==
  (Done /\ IsSome(request_.cursor) /\ ~WellFormedCursor(Unwrap(request_.cursor)))
    => RejectedAsInvalidCursor

C7_Witness ==
  /\ Done
  /\ IsSome(request_.cursor)
  /\ B64Decode(Unwrap(request_.cursor)).ok
  /\ from_slice(B64Decode(Unwrap(request_.cursor)).val).ok
  /\ Len(from_slice(B64Decode(Unwrap(request_.cursor)).val).val) = 3
  /\ RejectedAsInvalidCursor

\* C8: a next_cursor decodes to the two keys of the last row of its page,
\* in their order.
C8_CursorRoundTrip ==
  (Succeeded /\ IsSome(Res.next_cursor)) =>
    parse_cursor(Unwrap(Res.next_cursor)) =
      [ok |-> TRUE, val |-> retrieve_keys_(Res.data[Len(Res.data)])]

\* a next_cursor for a key with a quote
C8_Witness ==
  /\ Succeeded
  /\ IsSome(Res.next_cursor)
  /\ LET keys == retrieve_keys_(Res.data[Len(Res.data)])
     IN \E c \in 1..2 : \E i \in 1..Len(keys[c]) : keys[c][i] = 34

\* the cursor decodes to two keys, one of which is not of its column's type
KeyParseFails(c) ==
  /\ WellFormedCursor(c)
  /\ LET values == from_slice(B64Decode(c).val).val
     IN \E k \in 1..2 : db.K[k] = "DateTime" /\ ~ParseDateTime(values[k]).ok

\* C9: paginate executes at most one query; an error carries no data; a
\* failed execution gives Internal; a cursor whose keys do not parse gives
\* InvalidArgument with no query executed; a success carries the rows that
\* the storage returned, up to the effective limit.
C9_NoPartialSuccess ==
  Done =>
    /\ Len(queries) <= 1
    /\ ~Res.ok => "data" \notin DOMAIN Res
    /\ (queries # <<>> /\ ~queries[1].up) => Res = Internal
    /\ (IsSome(request_.cursor) /\ KeyParseFails(Unwrap(request_.cursor))) =>
         (~Res.ok /\ Res.error = "InvalidArgument" /\ queries = <<>>)
    /\ Res.ok =>
         /\ Len(Res.data) = IF Fetched <= EffectiveLimit(request_.limit)
                              THEN Fetched
                              ELSE EffectiveLimit(request_.limit)
         /\ Res.data = SubSeq(Unwrap(queries[1].rows), 1, Len(Res.data))

\* a cursor whose second key is no timestamp
C9_Witness ==
  /\ Done
  /\ db.K[2] = "DateTime"
  /\ IsSome(request_.cursor)
  /\ KeyParseFails(Unwrap(request_.cursor))
  /\ ~Res.ok
  /\ queries = <<>>

\* the keys that a returned cursor stands for
CursorPosition(c) ==
  LET values == parse_cursor(c).val
  IN << parse_key(db.K[1], values[1]).val, parse_key(db.K[2], values[2]).val >>

\* the number of calls that a chain over n rows may take
MaxCalls ==
  LET n == Cardinality(db.rows)
      l == EffectiveLimit(request_.limit)
  IN IF n = 0 THEN 1 ELSE (n + l - 1) \div l

\* the client has received a response without a next_cursor
ChainEnded == Done /\ (~Res.ok \/ Res.next_cursor = None)

\* C10: on a table of N rows of unique composite keys, each returned cursor
\* is strictly beyond the one before it in sort order, a chain of calls
\* takes at most ceil(N / effective_limit) calls (one for N = 0), and the
\* response of the last of these has no next_cursor.
C10_ChainTerminates ==
  UniqueKeys =>
    /\ Len(cursors) >= 2 =>
         KeyBefore(CursorPosition(cursors[Len(cursors) - 1]),
                   CursorPosition(cursors[Len(cursors)]))
    /\ calls <= MaxCalls
    /\ (Done /\ calls = MaxCalls) => ChainEnded

C10_Witness ==
  /\ UniqueKeys
  /\ LastPage
  /\ Len(cursors) >= 3
  /\ calls = MaxCalls

====
